---- MODULE Spec2Model ----
(***************************************************************************)
(* Model of gradle/update-jdks-action, src/src/index.ts: run() reads the   *)
(* manifest .teamcity/jdks.yaml, asks the Adoptium API for the latest      *)
(* release of every temurin entry, and rewrites the manifest if a version  *)
(* changed.                                                                *)
(***************************************************************************)
EXTENDS Integers, Sequences, FiniteSets

\* Largest number of entries of a manifest the model explores.
MaxEntries == 2

-----------------------------------------------------------------------------
(* Strings the code inspects character by character are sequences of       *)
(* one-character strings.                                                  *)

V_jdk8u4   == <<"j", "d", "k", "8", "u", "4">>
V_jdk17    == <<"j", "d", "k", "-", "1", "7">>
V_jdk17p1  == <<"j", "d", "k", "-", "1", "7", "+", "1">>
V_17       == <<"1", "7">>

Digits == <<"0", "1", "2", "3", "4", "5", "6", "7", "8", "9">>

IsDigit(c) == \E d \in 1..Len(Digits) : Digits[d] = c

DigitValue(c) == (CHOOSE d \in 1..Len(Digits) : Digits[d] = c) - 1

StartsWith(s, p) == Len(s) >= Len(p) /\ SubSeq(s, 1, Len(p)) = p

\* /jdk-(\d+)/ matches at position k of s
MatchAt(s, k) ==
    /\ k + 4 <= Len(s)
    /\ SubSeq(s, k, k + 3) = <<"j", "d", "k", "-">>
    /\ IsDigit(s[k + 4])

\* leftmost position where the pattern matches, 0 when there is none
FirstMatch(s) ==
    IF \E k \in 1..Len(s) : MatchAt(s, k)
    THEN CHOOSE k \in 1..Len(s) : MatchAt(s, k) /\ \A j \in 1..(k - 1) : ~MatchAt(s, j)
    ELSE 0

\* parseInt of the greedy digit run starting at position k
RECURSIVE ParseDigits(_, _, _)
ParseDigits(s, k, acc) ==
    IF k <= Len(s) /\ IsDigit(s[k])
    THEN ParseDigits(s, k + 1, acc * 10 + DigitValue(s[k]))
    ELSE acc

Thrown == [ok |-> FALSE, value |-> 0]
Returned(v) == [ok |-> TRUE, value |-> v]

extractMajorVersion(jdkString) ==
    IF StartsWith(jdkString, <<"j", "d", "k", "8", "u">>)
    THEN Returned(8)
    ELSE IF FirstMatch(jdkString) = 0
         THEN Thrown
         ELSE Returned(ParseDigits(jdkString, FirstMatch(jdkString) + 4, 0))

OS_MAPPING == [windows |-> "windows", linux |-> "linux", macos |-> "mac"]

ARCH_MAPPING == [amd64 |-> "x64", aarch64 |-> "aarch64"]

getOrError(map, key) ==
    IF key \in DOMAIN map THEN [ok |-> TRUE, value |-> map[key]]
    ELSE [ok |-> FALSE, value |-> ""]

-----------------------------------------------------------------------------
(* The manifest and the inputs explored.                                   *)

Jdk(os, arch, vendor, version, sha256) ==
    [os |-> os, arch |-> arch, vendor |-> vendor, version |-> version, sha256 |-> sha256]

\* (os, arch) pairs of the entries explored: two the tables know, one with an
\* unknown os, one with an unknown arch
Platforms == {<<"linux", "amd64">>, <<"macos", "aarch64">>,
              <<"plan9", "amd64">>, <<"linux", "sparc">>}

ManifestVersions == {V_jdk8u4, V_jdk17, V_17}

ReleaseNames == {V_jdk8u4, V_jdk17, V_jdk17p1}

Checksums == {"sha0", "sha1"}

Entries ==
    {Jdk(p[1], p[2], "temurin", v, "sha0") : p \in Platforms, v \in ManifestVersions}
    \cup {Jdk("linux", "amd64", "zulu", V_jdk17, "sha0"),
          Jdk("macos", "aarch64", "oracle", V_17, "sha1")}

Manifests == UNION {[1..n -> Entries] : n \in 0..MaxEntries}

\* The file on disk: kind "yaml" is a well-formed manifest, "nolist" a
\* well-formed document without a jdks list, "unreadable" and "partial" a file
\* that cannot be read or parsed.  extra stands for the other top-level keys,
\* style for the text layout (comments, quoting) that parsing drops.
File(kind, jdks, extra, style) ==
    [kind |-> kind, jdks |-> jdks, extra |-> extra, style |-> style]

InitialFiles ==
    {File("yaml", m, x, s) : m \in Manifests, x \in {"", "project"}, s \in {"plain", "quoted"}}
    \cup {File("nolist", <<>>, "project", "plain"), File("unreadable", <<>>, "", "plain")}

NoData == [kind |-> "none", jdks |-> <<>>, extra |-> ""]

\* yaml.load: the document's values, without its layout
Load(f) == [kind |-> f.kind, jdks |-> f.jdks, extra |-> f.extra]

\* mutant: only the jdks list is written back
DumpJdksOnly(d) == File("yaml", d.jdks, "", "quoted")

\* yaml.dump with forceQuotes: every key of the document, in the dumper's layout
Dump(d) == File("yaml", d.jdks, d.extra, "quoted")

\* what is left of the file when writeFileSync throws: nothing was written, or
\* the file was truncated
FailedWriteOutcomes(f) == {f, File("partial", <<>>, "", "plain")}

\* the body of a successful response: data[0] with release_name and checksum
Asset(name, checksum) == [version |-> name, sha256 |-> checksum]

Assets == {Asset(n, c) : n \in ReleaseNames, c \in Checksums}

NoResult == [got |-> FALSE, version |-> <<>>, sha256 |-> ""]
Result(a) == [got |-> TRUE, version |-> a.version, sha256 |-> a.sha256]

Query(major, os, arch) == [major |-> major, os |-> os, arch |-> arch]

-----------------------------------------------------------------------------
VARIABLES
    file,         \* .teamcity/jdks.yaml on disk
    fileBefore,   \* the file when the current run started
    data,         \* the parsed manifest in memory
    pc,           \* where run() is
    idx,          \* position of the for-of loop in data.jdks
    changesMade,
    request,      \* the query of the fetch in flight
    resolved,     \* per entry, what getLatestTemurinVersion returned this run
    events,       \* the I/O of the current run, in order
    errKind,      \* what threw, "none" while nothing has
    failed,       \* core.setFailed was called
    runNo,        \* 1 for the first invocation, 2 for the one after it
    upstream      \* what the API answered, per query

vars == <<file, fileBefore, data, pc, idx, changesMade, request, resolved,
          events, errKind, failed, runNo, upstream>>

Event(op, k) == [op |-> op, idx |-> k]

NoRequest == Query(0, "", "")

EmptyMap == [q \in {} |-> Asset(<<>>, "")]

Init ==
    /\ file \in InitialFiles
    /\ fileBefore = file
    /\ data = NoData
    /\ pc = "Idle"
    /\ idx = 0
    /\ changesMade = FALSE
    /\ request = NoRequest
    /\ resolved = <<>>
    /\ events = <<>>
    /\ errKind = "none"
    /\ failed = FALSE
    /\ runNo = 1
    /\ upstream = EmptyMap

-----------------------------------------------------------------------------
(* run()                                                                   *)

\* mutant: the vendor is not looked at
IsSupportedAnyVendor(jdk) == jdk.vendor = jdk.vendor

IsSupported(jdk) == jdk.vendor = "temurin"

\* mutant: a new checksum alone counts as a change
VersionOrChecksumDiffers(jdk, res) ==
    jdk.version # res.version \/ jdk.sha256 # res.sha256

VersionDiffers(jdk, res) == jdk.version # res.version

\* mutant: line 70 is missing
UpdateVersionOnly(jdk, res) == [jdk EXCEPT !.version = res.version]

\* mutant: line 69 is missing
UpdateChecksumOnly(jdk, res) == [jdk EXCEPT !.sha256 = res.sha256]

UpdateEntry(jdk, res) == [jdk EXCEPT !.version = res.version, !.sha256 = res.sha256]

\* mutant: an exception ends the loop, and what was updated so far is written
RaiseThenWrite(kind) ==
    /\ pc' = IF changesMade THEN "Changed" ELSE "Error"
    /\ errKind' = kind

\* an exception reaches the catch block of run()
Raise(kind) ==
    /\ pc' = "Error"
    /\ errKind' = kind

\* lines 56-60: readFileSync, yaml.load
ReadManifest ==
    /\ pc = "Idle"
    /\ events' = Append(events, Event("read", 0))
    /\ IF file.kind \in {"yaml", "nolist"}
       THEN /\ data' = Load(file)
            /\ resolved' = [k \in 1..Len(file.jdks) |-> NoResult]
            /\ pc' = "Loaded"
            /\ UNCHANGED errKind
       ELSE /\ Raise("load")
            /\ UNCHANGED <<data, resolved>>
    /\ changesMade' = FALSE
    /\ UNCHANGED <<file, fileBefore, idx, request, failed, runNo, upstream>>

\* lines 62-63: the loop starts; data.jdks that is no list throws
EnterLoop ==
    /\ pc = "Loaded"
    /\ IF data.kind = "yaml"
       THEN /\ pc' = "Scanning"
            /\ idx' = 1
            /\ UNCHANGED errKind
       ELSE /\ Raise("load")
            /\ UNCHANGED idx
    /\ UNCHANGED <<file, fileBefore, data, changesMade, request, resolved, events,
                   failed, runNo, upstream>>

\* line 65 false: an entry of another vendor is passed over
SkipEntry ==
    /\ pc = "Scanning"
    /\ idx <= Len(data.jdks)
    /\ ~IsSupported(data.jdks[idx])
    /\ idx' = idx + 1
    /\ UNCHANGED <<file, fileBefore, data, pc, changesMade, request, resolved, events,
                   errKind, failed, runNo, upstream>>

\* lines 147-149 throwing: the version has no major, or arch or os is unknown
RejectEntry ==
    /\ pc = "Scanning"
    /\ idx <= Len(data.jdks)
    /\ IsSupported(data.jdks[idx])
    /\ LET jdk == data.jdks[idx] IN
       \/ /\ ~extractMajorVersion(jdk.version).ok
          /\ Raise("parse")
       \/ /\ extractMajorVersion(jdk.version).ok
          /\ \/ ~getOrError(ARCH_MAPPING, jdk.arch).ok
             \/ ~getOrError(OS_MAPPING, jdk.os).ok
          /\ Raise("lookup")
    /\ UNCHANGED <<file, fileBefore, data, idx, changesMade, request, resolved, events,
                   failed, runNo, upstream>>

\* mutant: the request is sent and the loop goes on without waiting
IssueCallNoAwait ==
    /\ pc = "Scanning"
    /\ idx <= Len(data.jdks)
    /\ IsSupported(data.jdks[idx])
    /\ LET jdk == data.jdks[idx]
           majorVersion == extractMajorVersion(jdk.version)
           targetArch == getOrError(ARCH_MAPPING, jdk.arch)
           targetOs == getOrError(OS_MAPPING, jdk.os)
       IN  /\ majorVersion.ok /\ targetArch.ok /\ targetOs.ok
           /\ request' = Query(majorVersion.value, targetOs.value, targetArch.value)
    /\ events' = Append(events, Event("call", idx))
    /\ idx' = idx + 1
    /\ UNCHANGED <<file, fileBefore, data, pc, changesMade, resolved, errKind,
                   failed, runNo, upstream>>

\* lines 147-153: the request is sent and run() waits for the response
IssueCall ==
    /\ pc = "Scanning"
    /\ idx <= Len(data.jdks)
    /\ IsSupported(data.jdks[idx])
    /\ LET jdk == data.jdks[idx]
           majorVersion == extractMajorVersion(jdk.version)
           targetArch == getOrError(ARCH_MAPPING, jdk.arch)
           targetOs == getOrError(OS_MAPPING, jdk.os)
       IN  /\ majorVersion.ok /\ targetArch.ok /\ targetOs.ok
           /\ request' = Query(majorVersion.value, targetOs.value, targetArch.value)
    /\ events' = Append(events, Event("call", idx))
    /\ pc' = "Await"
    /\ UNCHANGED <<file, fileBefore, data, idx, changesMade, resolved, errKind,
                   failed, runNo, upstream>>

\* mutant: a response that is not ok makes the loop ask again
RespondNotOkRetry ==
    /\ pc = "Await"
    /\ request \notin DOMAIN upstream
    /\ events' = Append(events, Event("resp", idx))
    /\ request' = NoRequest
    /\ pc' = "Scanning"
    /\ UNCHANGED <<file, fileBefore, data, idx, changesMade, resolved, errKind, failed,
                   runNo, upstream>>

\* lines 155-159: the response is not ok
RespondNotOk ==
    /\ pc = "Await"
    /\ request \notin DOMAIN upstream
    /\ events' = Append(events, Event("resp", idx))
    /\ request' = NoRequest
    /\ Raise("fetch")
    /\ UNCHANGED <<file, fileBefore, data, idx, changesMade, resolved, failed, runNo,
                   upstream>>

\* lines 161-172: the body has no first element, release_name or checksum
RespondMalformed ==
    /\ pc = "Await"
    /\ request \notin DOMAIN upstream
    /\ events' = Append(events, Event("resp", idx))
    /\ request' = NoRequest
    /\ Raise("malformed")
    /\ UNCHANGED <<file, fileBefore, data, idx, changesMade, resolved, failed, runNo,
                   upstream>>

\* lines 174-177 and 66-72: the asset comes back and is compared with the entry
Receive(asset) ==
    /\ pc = "Await"
    /\ events' = Append(events, Event("resp", idx))
    /\ request' = NoRequest
    /\ resolved' = [resolved EXCEPT ![idx] = Result(asset)]
    /\ IF VersionDiffers(data.jdks[idx], asset)
       THEN /\ data' = [data EXCEPT !.jdks[idx] = UpdateEntry(data.jdks[idx], asset)]
            /\ changesMade' = TRUE
       ELSE UNCHANGED <<data, changesMade>>
    /\ idx' = idx + 1
    /\ pc' = "Scanning"
    /\ UNCHANGED <<file, fileBefore, errKind, failed, runNo>>

\* what the API may answer to query q: anything, unless its answer is on record
Answers(q) == IF q \in DOMAIN upstream THEN {upstream[q]} ELSE Assets

\* the API answers whatever it likes
RespondOk ==
    \E asset \in Answers(request) :
        /\ Receive(asset)
        /\ UNCHANGED upstream

\* the API's answer is a function of major version, os and architecture
RespondOkSame ==
    \E asset \in Answers(request) :
        /\ Receive(asset)
        /\ upstream' = [q \in DOMAIN upstream \cup {request} |->
                            IF q = request THEN asset ELSE upstream[q]]

\* mutant: the file is written whether or not anything changed
LeaveLoopAlwaysWrite ==
    /\ pc = "Scanning"
    /\ idx > Len(data.jdks)
    /\ pc' = "Changed"
    /\ UNCHANGED <<file, fileBefore, data, idx, changesMade, request, resolved, events,
                   errKind, failed, runNo, upstream>>

\* lines 76-79: the loop is over
LeaveLoop ==
    /\ pc = "Scanning"
    /\ idx > Len(data.jdks)
    /\ pc' = IF ~changesMade THEN "Unchanged" ELSE "Changed"
    /\ UNCHANGED <<file, fileBefore, data, idx, changesMade, request, resolved, events,
                   errKind, failed, runNo, upstream>>

\* lines 77-78: nothing to write
ReturnUnchanged ==
    /\ pc = "Unchanged"
    /\ pc' = "Done"
    /\ UNCHANGED <<file, fileBefore, data, idx, changesMade, request, resolved, events,
                   errKind, failed, runNo, upstream>>

\* lines 81-82: yaml.dump, writeFileSync
WriteManifest ==
    /\ pc = "Changed"
    /\ events' = Append(events, Event("write", 0))
    /\ file' = Dump(data)
    /\ pc' = "Written"
    /\ UNCHANGED <<fileBefore, data, idx, changesMade, request, resolved, errKind,
                   failed, runNo, upstream>>

\* mutant: the exception of the write is swallowed
WriteThrowsIgnored ==
    /\ pc = "Changed"
    /\ events' = Append(events, Event("write", 0))
    /\ file' \in FailedWriteOutcomes(file)
    /\ errKind' = "write"
    /\ pc' = "Written"
    /\ UNCHANGED <<fileBefore, data, idx, changesMade, request, resolved,
                   failed, runNo, upstream>>

\* line 82 throwing
WriteThrows ==
    /\ pc = "Changed"
    /\ events' = Append(events, Event("write", 0))
    /\ file' \in FailedWriteOutcomes(file)
    /\ Raise("write")
    /\ UNCHANGED <<fileBefore, data, idx, changesMade, request, resolved,
                   failed, runNo, upstream>>

\* line 83
ReturnWritten ==
    /\ pc = "Written"
    /\ pc' = "Done"
    /\ UNCHANGED <<file, fileBefore, data, idx, changesMade, request, resolved, events,
                   errKind, failed, runNo, upstream>>

\* lines 84-86: core.setFailed
Fail ==
    /\ pc = "Error"
    /\ failed' = TRUE
    /\ pc' = "Failed"
    /\ UNCHANGED <<file, fileBefore, data, idx, changesMade, request, resolved, events,
                   errKind, runNo, upstream>>

Next ==
    \/ ReadManifest
    \/ EnterLoop
    \/ SkipEntry
    \/ RejectEntry
    \/ IssueCall
    \/ RespondNotOk
    \/ RespondMalformed
    \/ RespondOk
    \/ LeaveLoop
    \/ ReturnUnchanged
    \/ WriteManifest
    \/ WriteThrows
    \/ ReturnWritten
    \/ Fail

Spec == Init /\ [][Next]_vars

\* lines 180-182, a second time: the action is invoked again after a success
Rerun ==
    /\ pc = "Done"
    /\ runNo = 1
    /\ runNo' = 2
    /\ fileBefore' = file
    /\ data' = NoData
    /\ pc' = "Idle"
    /\ idx' = 0
    /\ changesMade' = FALSE
    /\ resolved' = <<>>
    /\ events' = <<>>
    /\ UNCHANGED <<file, request, errKind, failed, upstream>>

NextTwoRuns ==
    \/ ReadManifest
    \/ EnterLoop
    \/ SkipEntry
    \/ RejectEntry
    \/ IssueCall
    \/ RespondNotOk
    \/ RespondMalformed
    \/ RespondOkSame
    \/ LeaveLoop
    \/ ReturnUnchanged
    \/ WriteManifest
    \/ WriteThrows
    \/ ReturnWritten
    \/ Fail
    \/ Rerun

\* two invocations in a row against an API that answers a query the same way
SpecTwoRuns == Init /\ [][NextTwoRuns]_vars

\* every step of run() that can be taken is taken, and every request is answered
FairSpec == Spec /\ WF_vars(Next)

-----------------------------------------------------------------------------
(* What the claims speak of.                                               *)

\* the entries the run started from
Orig == fileBefore.jdks

Callable(k) == Orig[k].vendor = "temurin"

Calls(k) == Cardinality({e \in 1..Len(events) : events[e] = Event("call", k)})

Writes == Cardinality({e \in 1..Len(events) : events[e].op = "write"})

Pair(r) == <<r.version, r.sha256>>

\* the resolver answered for entry k with a version other than the entry's
ResolvedNewer(k) == resolved[k].got /\ resolved[k].version # Orig[k].version

ScanErrors == {"load", "parse", "lookup", "fetch", "malformed"}

Terminal == {"Done", "Failed"}

-----------------------------------------------------------------------------
\* C1: once manifest load, major-version parse, os/arch lookup, a non-success
\* status or a malformed response has raised an error, the run only goes on to
\* report the failure: the file is never written and holds what it held before
\* the run, whatever entries were already updated in memory.
C1_AllOrNothing ==
    errKind \in ScanErrors =>
        /\ pc \in {"Error", "Failed"}
        /\ Writes = 0
        /\ file = fileBefore

\* a fetch failed after an earlier entry had been updated in memory
C1_Witness ==
    /\ pc = "Failed"
    /\ errKind = "fetch"
    /\ changesMade
    /\ data.jdks # Orig
    /\ file = fileBefore

-----------------------------------------------------------------------------
\* every temurin entry has been resolved, each to the version it already has
AllResolvedSame ==
    /\ data.kind = "yaml"
    /\ \A k \in 1..Len(Orig) :
          Callable(k) => resolved[k].got /\ resolved[k].version = Orig[k].version

\* C2: when every temurin entry resolves to its current version, the run writes
\* nothing, raises nothing, leaves the file as it was, and ends in Done.
C2_NoOpRun ==
    /\ [](AllResolvedSame =>
            /\ pc \in {"Loaded", "Scanning", "Unchanged", "Done"}
            /\ ~changesMade
            /\ errKind = "none"
            /\ ~failed
            /\ Writes = 0
            /\ file = fileBefore)
    /\ (AllResolvedSame ~> (pc = "Done" /\ file = fileBefore))

\* a run that made a call, got the same version with another checksum, and ended
C2_Witness ==
    /\ pc = "Done"
    /\ AllResolvedSame
    /\ file.style = "plain"
    /\ \E k \in 1..Len(Orig) : resolved[k].got /\ resolved[k].sha256 # Orig[k].sha256

-----------------------------------------------------------------------------
\* C3: an entry of another vendor is never resolved and never changed, in
\* memory or in a written file; the run is marked changed only by a temurin
\* entry, so a manifest of other vendors only is never written.
C3_OtherVendorsUntouched ==
    /\ data.kind = "yaml" =>
          \A k \in 1..Len(Orig) :
              ~Callable(k) =>
                  /\ data.jdks[k] = Orig[k]
                  /\ ~resolved[k].got
                  /\ Calls(k) = 0
    /\ file.kind = "yaml" =>
          /\ Len(file.jdks) = Len(Orig)
          /\ \A k \in 1..Len(Orig) : ~Callable(k) => file.jdks[k] = Orig[k]
    /\ changesMade => \E k \in 1..Len(Orig) : Callable(k) /\ ResolvedNewer(k)
    /\ (\A k \in 1..Len(Orig) : ~Callable(k)) =>
          /\ ~changesMade
          /\ Writes = 0
          /\ file = fileBefore

\* a manifest with an entry of another vendor has been rewritten
C3_Witness ==
    /\ pc = "Done"
    /\ Writes = 1
    /\ \E k \in 1..Len(Orig) : ~Callable(k) /\ file.jdks[k] = Orig[k]

-----------------------------------------------------------------------------
\* C4: while a request is in flight, and at every other point between the
\* steps of run(), and in a written file, the (version, sha256) of a temurin
\* entry is the pair the run started with or the pair the resolver returned
\* for that entry.
C4_PairUpdatedTogether ==
    /\ data.kind = "yaml" =>
          \A k \in 1..Len(Orig) :
              Callable(k) =>
                  \/ Pair(data.jdks[k]) = Pair(Orig[k])
                  \/ resolved[k].got /\ Pair(data.jdks[k]) = Pair(resolved[k])
    /\ file.kind = "yaml" =>
          \A k \in 1..Len(file.jdks) :
              Callable(k) =>
                  \/ Pair(file.jdks[k]) = Pair(Orig[k])
                  \/ resolved[k].got /\ Pair(file.jdks[k]) = Pair(resolved[k])

\* a request is in flight after an earlier entry got a new version and checksum
C4_Witness ==
    /\ pc = "Await"
    /\ \E k \in 1..(idx - 1) :
          /\ data.jdks[k].version # Orig[k].version
          /\ data.jdks[k].sha256 # Orig[k].sha256

-----------------------------------------------------------------------------
\* C5: a written manifest has the entries of the loaded one in the same order,
\* os, arch and vendor of each unchanged, the other top-level keys kept, and an
\* entry differs from the loaded one only if it is a temurin entry whose
\* resolved version differed.
C5_WritePreservesRest ==
    (pc \in {"Written", "Done"} /\ Writes = 1) =>
        /\ file.kind = "yaml"
        /\ file.extra = fileBefore.extra
        /\ Len(file.jdks) = Len(Orig)
        /\ \A k \in 1..Len(Orig) :
              /\ file.jdks[k].os = Orig[k].os
              /\ file.jdks[k].arch = Orig[k].arch
              /\ file.jdks[k].vendor = Orig[k].vendor
              /\ file.jdks[k] # Orig[k] => Callable(k) /\ ResolvedNewer(k)

\* a manifest with another top-level key, one changed and one unchanged entry
C5_Witness ==
    /\ pc = "Done"
    /\ Writes = 1
    /\ file.extra = "project"
    /\ \E k \in 1..Len(Orig) : file.jdks[k] # Orig[k]
    /\ \E k \in 1..Len(Orig) : file.jdks[k] = Orig[k]

-----------------------------------------------------------------------------
\* C6 as stated: in every run, ended in success or in failure, every temurin
\* entry has had exactly one network call.
C6_ExactlyOneCallEveryRun ==
    (pc \in Terminal /\ data.kind = "yaml") =>
        \A k \in 1..Len(Orig) : Callable(k) => Calls(k) = 1

\* C6 amended: no entry is ever called twice and no entry of another vendor is
\* called; every temurin entry the loop has passed has had exactly one call,
\* so in a run whose loop completes every temurin entry has exactly one, two
\* entries with the same major version, os and arch included.
C6_AtMostOneCall ==
    data.kind = "yaml" =>
        /\ \A k \in 1..Len(Orig) :
              /\ Calls(k) <= 1
              /\ ~Callable(k) => Calls(k) = 0
              /\ (Callable(k) /\ pc \in {"Scanning", "Await"} /\ k < idx) => Calls(k) = 1
              /\ (Callable(k) /\ pc \in {"Unchanged", "Changed", "Written", "Done"})
                    => Calls(k) = 1

\* two temurin entries with the same version, os and arch, each called once
C6_Witness ==
    /\ pc = "Done"
    /\ Len(Orig) = 2
    /\ Callable(1)
    /\ Orig[1] = Orig[2]
    /\ Calls(1) = 1
    /\ Calls(2) = 1

-----------------------------------------------------------------------------
\* C7: the run's I/O is one read first, then calls in manifest order, each
\* answered before the next I/O, then at most one write, which is the last
\* event.
C7_IoTotallyOrdered ==
    /\ \A e \in 1..Len(events) :
          /\ (events[e].op = "read") <=> (e = 1)
          /\ events[e].op = "write" => e = Len(events)
          /\ (events[e].op = "call" /\ e < Len(events)) =>
                events[e + 1] = Event("resp", events[e].idx)
          /\ events[e].op = "resp" =>
                e > 1 /\ events[e - 1] = Event("call", events[e].idx)
    /\ \A e, f \in 1..Len(events) :
          (e < f /\ events[e].op = "call" /\ events[f].op = "call") =>
              events[e].idx < events[f].idx
    /\ (request # NoRequest) <=> (pc = "Await")

\* a run that read, made two calls and wrote
C7_Witness ==
    /\ pc = "Done"
    /\ Writes = 1
    /\ Calls(1) = 1
    /\ Calls(2) = 1

-----------------------------------------------------------------------------
\* the states of the run's state machine; waiting for a response is Scanning
Phase(p) == IF p = "Await" THEN "Scanning" ELSE p

\* Error is entered from any state in which a step can throw
Transitions ==
    {<<"Idle", "Loaded">>, <<"Loaded", "Scanning">>, <<"Scanning", "Scanning">>,
     <<"Scanning", "Unchanged">>, <<"Unchanged", "Done">>,
     <<"Scanning", "Changed">>, <<"Changed", "Written">>, <<"Written", "Done">>,
     <<"Error", "Failed">>}
    \cup {<<p, "Error">> : p \in {"Idle", "Loaded", "Scanning", "Changed"}}

\* a step of the run follows an arrow of the state machine
PhaseStep == <<Phase(pc), Phase(pc')>> \in Transitions

\* C8: a run moves only along Idle -> Loaded -> Scanning -> Unchanged -> Done,
\* ... -> Changed -> Written -> Done, or from a state where a step throws to
\* Error -> Failed; it always ends in Done or Failed, where nothing more
\* happens; success is reported exactly when nothing threw; and after an
\* error, the one of the final write included, there is no more I/O.
C8_StateMachine ==
    /\ [][PhaseStep]_pc
    /\ <>(pc \in Terminal)
    /\ [](pc \in Terminal => ~ENABLED Next)
    /\ [](pc = "Done" => errKind = "none" /\ ~failed)
    /\ [](pc = "Failed" <=> failed)
    /\ [](errKind # "none" => pc \in {"Error", "Failed"})
    /\ [][errKind # "none" => events' = events /\ file' = file]_vars

\* the final write threw and the run was reported failed
C8_Witness ==
    /\ pc = "Failed"
    /\ errKind = "write"
    /\ Writes = 1

-----------------------------------------------------------------------------
\* C9: after a successful run, a temurin entry whose resolved version differed
\* holds the resolved version and checksum, one whose resolved version was the
\* same holds what it held, whatever the resolved checksum; the run is marked
\* changed, and the file written, exactly if a resolved version differed.
C9_UpdateRule ==
    pc = "Done" =>
        /\ \A k \in 1..Len(Orig) :
              Callable(k) =>
                  /\ resolved[k].got
                  /\ data.jdks[k] =
                        IF resolved[k].version # Orig[k].version
                        THEN [Orig[k] EXCEPT !.version = resolved[k].version,
                                             !.sha256 = resolved[k].sha256]
                        ELSE Orig[k]
        /\ changesMade <=> \E k \in 1..Len(Orig) : Callable(k) /\ ResolvedNewer(k)
        /\ (Writes = 1) <=> changesMade
        /\ file = IF changesMade THEN Dump(data) ELSE fileBefore
        /\ file.jdks = data.jdks

\* one entry resolved to a new version, another to its own with a new checksum
C9_Witness ==
    /\ pc = "Done"
    /\ \E k \in 1..Len(Orig) : Callable(k) /\ ResolvedNewer(k)
    /\ \E k \in 1..Len(Orig) :
          /\ Callable(k)
          /\ resolved[k].version = Orig[k].version
          /\ resolved[k].sha256 # Orig[k].sha256

-----------------------------------------------------------------------------
\* every release name the API returned has the major version it was asked for
NamesParseToRequested ==
    \A q \in DOMAIN upstream :
        extractMajorVersion(upstream[q].version) = Returned(q.major)

\* C10: in a second run after a successful one, against an API that answers a
\* query as before and whose release names parse to the major version asked
\* for, nothing changes: no error, no write, the file stays as the first run
\* left it.
C10_SecondRunIsNoOp ==
    (runNo = 2 /\ NamesParseToRequested) =>
        /\ ~changesMade
        /\ errKind = "none"
        /\ Writes = 0
        /\ file = fileBefore
        /\ pc \in {"Idle", "Loaded", "Scanning", "Await", "Unchanged", "Done"}

\* the second run ended after a first run that had installed a resolved version
C10_Witness ==
    /\ runNo = 2
    /\ pc = "Done"
    /\ NamesParseToRequested
    /\ \E k \in 1..Len(Orig) : resolved[k].got /\ file.jdks[k].version = V_jdk17p1

====
